---- MODULE Spec2Model ----
(***************************************************************************)
(* Model of the bundle-building pipeline of src/main.py: the /ocr/pdf      *)
(* route (ocr_pdf), build_bundle with its page loop, the files it writes   *)
(* into work/<job_id>/, the archive bundles/<job_id>.zip and the download  *)
(* route.  The file system is one shared map from paths to files; each job *)
(* is a process whose position is pc[j].                                   *)
(***************************************************************************)
EXTENDS Integers, Sequences, FiniteSets, TLC

\* ---------------------------------------------------------------- bounds
MaxPages == 3        \* pages of the document of a single request
MaxConcPages == 1    \* pages per document when two requests run at once
MaxDiskFaults == 1   \* I/O errors the disk raises while one request runs

\* job identifiers: uuid4 values, one per request, pairwise distinct
Jobs == {"j1", "j2"}

\* what the Recognizer may return for a page, and the causes it may raise
Texts == {"", "ab"}
Errors == {"timeout", "bad response"}

\* file extensions of the uploaded file name
Extensions == {"pdf", "PDF", "txt"}

\* Optional[str]: None is the empty tuple, a value s is <<s>>
None == <<>>
Some(s) == <<s>>

\* ---------------------------------------------------------------- paths
\* a path is the tuple of its components; os.path.join appends components
UPLOAD_DIR == <<"uploads">>
BUNDLE_DIR == <<"bundles">>
WORK_DIR == <<"work">>

Join(dir, name) == Append(dir, name)
Parent(path) == SubSeq(path, 1, Len(path) - 1)
IsUnder(path, dir) ==
    /\ Len(path) > Len(dir)
    /\ SubSeq(path, 1, Len(dir)) = dir

\* os.path.relpath(full, workdir) for a file below workdir
RelPath(full, workdir) == SubSeq(full, Len(workdir) + 1, Len(full))

\* str.lower() of the extension, for filename.lower().endswith(".pdf")
Lower(ext) == IF ext = "PDF" THEN "pdf" ELSE ext
IsPdfName(ext) == Lower(ext) = "pdf"

\* ---------------------------------------------------------------- formatting
DigitStr(d) ==
    CASE d = 0 -> "0" [] d = 1 -> "1" [] d = 2 -> "2" [] d = 3 -> "3"
      [] d = 4 -> "4" [] d = 5 -> "5" [] d = 6 -> "6" [] d = 7 -> "7"
      [] d = 8 -> "8" [] d = 9 -> "9"

RECURSIVE ToStr(_)
\* str(n) / f"{n}" for n >= 0
ToStr(n) == IF n < 10 THEN DigitStr(n) ELSE ToStr(n \div 10) \o DigitStr(n % 10)

\* f"{idx:03d}": zero padded to width 3, never truncated
Fmt03d(idx) ==
    LET s == ToStr(idx)
    IN  IF Len(s) >= 3 THEN s
        ELSE IF Len(s) = 2 THEN "0" \o s
        ELSE "00" \o s

ImageNameSame(idx) == "page_001.png"
ImageName(idx) == "page_" \o Fmt03d(idx) \o ".png"

WorkDirShared(job_id) == WORK_DIR
WorkDir(job_id) == Join(WORK_DIR, job_id)
DocsDir(job_id) == Join(WorkDir(job_id), "docs")
TablesDir(job_id) == Join(WorkDir(job_id), "tables")
MediaDir(job_id) == Join(Join(WorkDir(job_id), "media"), "images")

PdfPath(job_id) == Join(UPLOAD_DIR, job_id \o ".pdf")
ZipName(job_id) == job_id \o ".zip"
ZipPath(job_id) == Join(BUNDLE_DIR, ZipName(job_id))
ImagePath(job_id, idx) == Join(MediaDir(job_id), ImageName(idx))
RawTextPath(job_id) == Join(DocsDir(job_id), "raw_text.md")
StructPath(job_id) == Join(DocsDir(job_id), "structure.json")
WarnPath(job_id) == Join(DocsDir(job_id), "ocr_warnings.txt")
TablePath(job_id) == Join(TablesDir(job_id), "table_001.json")

\* ---------------------------------------------------------------- page results
BASE_URL == "http://localhost:8000"

\* Python truthiness of an Optional[str]: None and "" are false
Truthy(w) == w # None /\ w[1] # ""

\* the result appended when ocr_page_with_vision returned text
PageResultOnSuccess(idx, text) ==
    [page_number |-> idx, text |-> text, text_length |-> Len(text), warning |-> None]

PageResultOnErrorKeepsNone(idx, e) ==
    [page_number |-> idx, text |-> "", text_length |-> Len(""), warning |-> None]

PageResultOnErrorPartial(idx, e) ==
    [page_number |-> idx, text |-> "ab", text_length |-> Len("ab"),
     warning |-> Some("OCR error: " \o e)]

\* the result appended when ocr_page_with_vision raised e (except Exception)
PageResultOnError(idx, e) ==
    [page_number |-> idx, text |-> "", text_length |-> Len(""),
     warning |-> Some("OCR error: " \o e)]

\* ---------------------------------------------------------------- rendered outputs
RECURSIVE RawText(_)
\* docs/raw_text.md: marker, text and a blank line per page, in list order
RawText(results) ==
    IF results = <<>> THEN ""
    ELSE LET n == Len(results)
             item == results[n]
         IN  RawText(SubSeq(results, 1, n - 1))
                \o "<!-- Page " \o ToStr(item.page_number) \o " -->\n"
                \o item.text \o "\n\n"

RECURSIVE TotalCharsSkipsFirst(_)
TotalCharsSkipsFirst(results) ==
    IF Len(results) <= 1 THEN 0
    ELSE TotalCharsSkipsFirst(SubSeq(results, 1, Len(results) - 1))
            + results[Len(results)].text_length

RECURSIVE TotalChars(_)
\* total_chars accumulated over results while raw_text.md is written
TotalChars(results) ==
    IF results = <<>> THEN 0
    ELSE TotalChars(SubSeq(results, 1, Len(results) - 1))
            + results[Len(results)].text_length

StructureEntry(item) ==
    [page_number |-> item.page_number,
     text_length |-> item.text_length,
     has_warning |-> item.warning # None]

RECURSIVE StructureJsonDropsWarned(_)
StructureJsonDropsWarned(results) ==
    IF results = <<>> THEN <<>>
    ELSE LET n == Len(results)
             rest == StructureJsonDropsWarned(SubSeq(results, 1, n - 1))
         IN  IF results[n].warning # None THEN rest
             ELSE Append(rest, StructureEntry(results[n]))

\* docs/structure.json: the "pages" array, one entry per item of results
StructureJson(results) == [i \in 1..Len(results) |-> StructureEntry(results[i])]

RECURSIVE WarningLines(_)
\* docs/ocr_warnings.txt: one line per item whose warning is truthy
WarningLines(results) ==
    IF results = <<>> THEN <<>>
    ELSE LET n == Len(results)
             item == results[n]
             rest == WarningLines(SubSeq(results, 1, n - 1))
         IN  IF Truthy(item.warning)
             THEN Append(rest, "Trang " \o ToStr(item.page_number) \o ": "
                                  \o item.warning[1] \o "\n")
             ELSE rest

\* tables/table_001.json: the fixed placeholder
TablePlaceholder == [tables |-> <<>>, note |-> "Chua implement nhan dien bang."]

RECURSIVE DescriptorWarningsNumbered(_)
DescriptorWarningsNumbered(results) ==
    IF results = <<>> THEN <<>>
    ELSE LET n == Len(results)
             r == results[n]
             rest == DescriptorWarningsNumbered(SubSeq(results, 1, n - 1))
         IN  IF Truthy(r.warning)
             THEN Append(rest, ToStr(r.page_number) \o ": " \o r.warning[1])
             ELSE rest

RECURSIVE DescriptorWarnings(_)
\* [r["warning"] for r in results if r["warning"]]
DescriptorWarnings(results) ==
    IF results = <<>> THEN <<>>
    ELSE LET n == Len(results)
             r == results[n]
             rest == DescriptorWarnings(SubSeq(results, 1, n - 1))
         IN  IF Truthy(r.warning) THEN Append(rest, r.warning[1]) ELSE rest

\* the dict build_bundle returns
Descriptor(job_id, results, total) ==
    [zip_name |-> ZipName(job_id),
     zip_path |-> ZipPath(job_id),
     page_count |-> Len(results),
     total_chars |-> total,
     warnings |-> DescriptorWarnings(results)]

\* the JSON body ocr_pdf returns
ResponseBody(job_id, m) ==
    [job_id |-> job_id,
     zip_url |-> BASE_URL \o "/files/" \o m.zip_name,
     page_count |-> m.page_count,
     total_chars |-> m.total_chars,
     warnings |-> m.warnings]

\* ---------------------------------------------------------------- state
VARIABLES
    pc,            \* pc[j]: where request j stands in ocr_pdf / build_bundle
    doc,           \* doc[j]: the uploaded document (parses or not, page count)
    pages,         \* pages[j]: number of images pdf_to_images returned
    results,       \* results[j]: the list build_bundle accumulates
    total_chars,   \* total_chars[j]: the local of build_bundle
    meta,          \* meta[j]: None, or the dict build_bundle returned
    response,      \* response[j]: HTTP status and body of the request
    error,         \* error[j]: class of the exception that ended the job
    ocr_calls,     \* ocr_calls[j]: Recognizer calls made so far
    failed_pages,  \* failed_pages[j]: pages whose Recognizer call raised
    fs,            \* the file system: path -> file or directory
    disk_faults    \* I/O errors the disk will still raise

vars == <<pc, doc, pages, results, total_chars, meta, response, error,
          ocr_calls, failed_pages, fs, disk_faults>>

Terminal == {"rejected", "done", "failed"}

\* documents a client may upload: n pages, or bytes fitz cannot open
Docs(max) == {[ok |-> TRUE, pages |-> n] : n \in 0..max}
                \cup {[ok |-> FALSE, pages |-> 0]}

DirEntry(j) == [kind |-> "dir", data |-> "", by |-> j]
FileEntry(data, j) == [kind |-> "file", data |-> data, by |-> j]

\* the directories created at import time (UPLOAD_DIR, BUNDLE_DIR, WORK_DIR)
InitFs == [p \in {UPLOAD_DIR, BUNDLE_DIR, WORK_DIR} |-> DirEntry("app")]

Prefixes(path) == {SubSeq(path, 1, k) : k \in 1..Len(path)}

\* os.makedirs(path, exist_ok=True)
MakeDirsFs(f, path, j) ==
    [p \in DOMAIN f \cup Prefixes(path) |-> IF p \in DOMAIN f THEN f[p] ELSE DirEntry(j)]

\* open(path, "w") followed by the writes and the close
WriteFs(f, path, data, j) ==
    [p \in DOMAIN f \cup {path} |-> IF p = path THEN FileEntry(data, j) ELSE f[p]]

CanOpenForWrite(f, path) ==
    /\ Parent(path) \in DOMAIN f
    /\ f[Parent(path)].kind = "dir"
    /\ path \in DOMAIN f => f[path].kind = "file"

\* os.walk(workdir): the files found below workdir
WalkFiles(f, workdir) ==
    {p \in DOMAIN f : IsUnder(p, workdir) /\ f[p].kind = "file"}

\* the members z.write(full, arcname=rel) adds for a set of files
ZipMembers(f, files, workdir) ==
    LET names == {RelPath(p, workdir) : p \in files}
    IN  [nm \in names |->
            LET full == CHOOSE p \in files : RelPath(p, workdir) = nm
            IN  [data |-> f[full].data, by |-> f[full].by]]

\* download_file: 200 when the path exists under BUNDLE_DIR, else 404
download_file(filename) ==
    IF Join(BUNDLE_DIR, filename) \in DOMAIN fs THEN 200 ELSE 404

InitCommon ==
    /\ pages = [j \in Jobs |-> 0]
    /\ results = [j \in Jobs |-> <<>>]
    /\ total_chars = [j \in Jobs |-> 0]
    /\ meta = [j \in Jobs |-> None]
    /\ response = [j \in Jobs |-> [status |-> 0, body |-> None]]
    /\ error = [j \in Jobs |-> "none"]
    /\ ocr_calls = [j \in Jobs |-> 0]
    /\ failed_pages = [j \in Jobs |-> {}]
    /\ fs = InitFs

\* one request, with a document of up to MaxPages pages
Init ==
    /\ pc = [j \in Jobs |-> IF j = "j1" THEN "idle" ELSE "absent"]
    /\ \E d \in Docs(MaxPages) :
          doc = [j \in Jobs |-> IF j = "j1" THEN d ELSE [ok |-> FALSE, pages |-> 0]]
    /\ InitCommon
    /\ disk_faults = MaxDiskFaults

\* two requests in flight at once, on a disk that raises no I/O error
InitConc ==
    /\ pc = [j \in Jobs |-> "idle"]
    /\ doc \in [Jobs -> Docs(MaxConcPages)]
    /\ InitCommon
    /\ disk_faults = 0

\* an exception leaves build_bundle and ocr_pdf: the request answers 500
Abort(j, kind) ==
    /\ pc' = [pc EXCEPT ![j] = "failed"]
    /\ error' = [error EXCEPT ![j] = kind]
    /\ response' = [response EXCEPT ![j] = [status |-> 500, body |-> None]]

\* an open, write, read or mkdir raises OSError
DiskError(j, kind) ==
    /\ disk_faults > 0
    /\ disk_faults' = disk_faults - 1
    /\ Abort(j, kind)

\* ---------------------------------------------------------------- ocr_pdf
\* the filename check, then job_id = uuid4 (j itself) and pdf_path
Submit(j) ==
    /\ pc[j] = "idle"
    /\ \E ext \in Extensions :
          IF IsPdfName(ext)
          THEN /\ pc' = [pc EXCEPT ![j] = "upload"]
               /\ UNCHANGED response
          ELSE /\ pc' = [pc EXCEPT ![j] = "rejected"]
               /\ response' = [response EXCEPT ![j] = [status |-> 400, body |-> None]]
    /\ UNCHANGED <<doc, pages, results, total_chars, meta, error, ocr_calls,
                   failed_pages, fs, disk_faults>>

\* with open(pdf_path, "wb") as f: f.write(await file.read())
Upload(j) ==
    /\ pc[j] = "upload"
    /\ \/ /\ CanOpenForWrite(fs, PdfPath(j))
          /\ fs' = WriteFs(fs, PdfPath(j), doc[j], j)
          /\ pc' = [pc EXCEPT ![j] = "mkdirs"]
          /\ UNCHANGED <<error, response, disk_faults>>
       \/ /\ DiskError(j, "IOError")
          /\ UNCHANGED fs
    /\ UNCHANGED <<doc, pages, results, total_chars, meta, ocr_calls, failed_pages>>

\* ---------------------------------------------------------------- build_bundle
\* the three os.makedirs calls that open build_bundle
MakeDirs(j) ==
    /\ pc[j] = "mkdirs"
    /\ \/ /\ fs' = MakeDirsFs(MakeDirsFs(MakeDirsFs(fs, DocsDir(j), j),
                                         TablesDir(j), j), MediaDir(j), j)
          /\ pc' = [pc EXCEPT ![j] = "raster"]
          /\ UNCHANGED <<error, response, disk_faults>>
       \/ /\ DiskError(j, "IOError")
          /\ UNCHANGED fs
    /\ UNCHANGED <<doc, pages, results, total_chars, meta, ocr_calls, failed_pages>>

\* pages = pdf_to_images(pdf_path); results = []
Rasterize(j) ==
    /\ pc[j] = "raster"
    /\ IF doc[j].ok
       THEN /\ pages' = [pages EXCEPT ![j] = doc[j].pages]
            /\ results' = [results EXCEPT ![j] = <<>>]
            /\ pc' = [pc EXCEPT ![j] = IF doc[j].pages > 0 THEN "ocr" ELSE "raw_text"]
            /\ UNCHANGED <<error, response, disk_faults>>
       ELSE /\ Abort(j, "DocumentFormatError")
            /\ UNCHANGED <<pages, results, disk_faults>>
    /\ UNCHANGED <<doc, total_chars, meta, ocr_calls, failed_pages, fs>>

\* one iteration of the page loop up to results.append: the Recognizer
\* returns text, raises, or does not answer (no timeout is passed to it)
OcrPage(j) ==
    /\ pc[j] = "ocr"
    /\ LET idx == Len(results[j]) + 1
       IN  /\ ocr_calls' = [ocr_calls EXCEPT ![j] = @ + 1]
           /\ \/ \E text \in Texts :
                    /\ results' = [results EXCEPT ![j] =
                                      Append(@, PageResultOnSuccess(idx, text))]
                    /\ pc' = [pc EXCEPT ![j] = "save_img"]
                    /\ UNCHANGED failed_pages
              \/ \E e \in Errors :
                    /\ results' = [results EXCEPT ![j] =
                                      Append(@, PageResultOnError(idx, e))]
                    /\ failed_pages' = [failed_pages EXCEPT ![j] = @ \cup {idx}]
                    /\ pc' = [pc EXCEPT ![j] = "save_img"]
              \/ /\ pc' = [pc EXCEPT ![j] = "ocr_blocked"]
                 /\ UNCHANGED <<results, failed_pages>>
    /\ UNCHANGED <<doc, pages, total_chars, meta, response, error, fs, disk_faults>>

\* img.save(img_path, format="PNG"), then the next iteration or the loop's end
SaveImage(j) ==
    /\ pc[j] = "save_img"
    /\ LET idx == Len(results[j])
       IN  \/ /\ CanOpenForWrite(fs, ImagePath(j, idx))
              /\ fs' = WriteFs(fs, ImagePath(j, idx), <<"png", idx>>, j)
              /\ pc' = [pc EXCEPT ![j] = IF idx < pages[j] THEN "ocr" ELSE "raw_text"]
              /\ UNCHANGED <<error, response, disk_faults>>
           \/ /\ DiskError(j, "IOError")
              /\ UNCHANGED fs
    /\ UNCHANGED <<doc, pages, results, total_chars, meta, ocr_calls, failed_pages>>

\* docs/raw_text.md and the total_chars accumulation
WriteRawText(j) ==
    /\ pc[j] = "raw_text"
    /\ \/ /\ CanOpenForWrite(fs, RawTextPath(j))
          /\ fs' = WriteFs(fs, RawTextPath(j), RawText(results[j]), j)
          /\ total_chars' = [total_chars EXCEPT ![j] = TotalChars(results[j])]
          /\ pc' = [pc EXCEPT ![j] = "structure"]
          /\ UNCHANGED <<error, response, disk_faults>>
       \/ /\ DiskError(j, "IOError")
          /\ UNCHANGED <<fs, total_chars>>
    /\ UNCHANGED <<doc, pages, results, meta, ocr_calls, failed_pages>>

\* docs/structure.json
WriteStructure(j) ==
    /\ pc[j] = "structure"
    /\ \/ /\ CanOpenForWrite(fs, StructPath(j))
          /\ fs' = WriteFs(fs, StructPath(j), StructureJson(results[j]), j)
          /\ pc' = [pc EXCEPT ![j] = "warnings"]
          /\ UNCHANGED <<error, response, disk_faults>>
       \/ /\ DiskError(j, "IOError")
          /\ UNCHANGED fs
    /\ UNCHANGED <<doc, pages, results, total_chars, meta, ocr_calls, failed_pages>>

\* docs/ocr_warnings.txt
WriteWarnings(j) ==
    /\ pc[j] = "warnings"
    /\ \/ /\ CanOpenForWrite(fs, WarnPath(j))
          /\ fs' = WriteFs(fs, WarnPath(j), WarningLines(results[j]), j)
          /\ pc' = [pc EXCEPT ![j] = "table"]
          /\ UNCHANGED <<error, response, disk_faults>>
       \/ /\ DiskError(j, "IOError")
          /\ UNCHANGED fs
    /\ UNCHANGED <<doc, pages, results, total_chars, meta, ocr_calls, failed_pages>>

\* tables/table_001.json
WriteTable(j) ==
    /\ pc[j] = "table"
    /\ \/ /\ CanOpenForWrite(fs, TablePath(j))
          /\ fs' = WriteFs(fs, TablePath(j), TablePlaceholder, j)
          /\ pc' = [pc EXCEPT ![j] = "zip_open"]
          /\ UNCHANGED <<error, response, disk_faults>>
       \/ /\ DiskError(j, "IOError")
          /\ UNCHANGED fs
    /\ UNCHANGED <<doc, pages, results, total_chars, meta, ocr_calls, failed_pages>>

\* zipfile.ZipFile(zip_path, "w", ...): the archive file is created empty
ZipOpen(j) ==
    /\ pc[j] = "zip_open"
    /\ \/ /\ CanOpenForWrite(fs, ZipPath(j))
          /\ fs' = WriteFs(fs, ZipPath(j), ZipMembers(fs, {}, WorkDir(j)), j)
          /\ pc' = [pc EXCEPT ![j] = "zip_pack"]
          /\ UNCHANGED <<error, response, disk_faults>>
       \/ /\ DiskError(j, "ArchiveError")
          /\ UNCHANGED fs
    /\ UNCHANGED <<doc, pages, results, total_chars, meta, ocr_calls, failed_pages>>

\* the os.walk loop with z.write, the close of the archive, the returned
\* dict and the response of ocr_pdf.  When z.write raises on a file, the
\* with-block still closes the archive over the members packed before it:
\* the directories walked earlier, and some files of the failing directory.
ZipPack(j) ==
    /\ pc[j] = "zip_pack"
    /\ LET files == WalkFiles(fs, WorkDir(j))
       IN  \/ /\ fs' = WriteFs(fs, ZipPath(j), ZipMembers(fs, files, WorkDir(j)), j)
              /\ meta' = [meta EXCEPT ![j] =
                             Some(Descriptor(j, results[j], total_chars[j]))]
              /\ response' = [response EXCEPT ![j] =
                    [status |-> 200,
                     body |-> Some(ResponseBody(j,
                                 Descriptor(j, results[j], total_chars[j])))]]
              /\ pc' = [pc EXCEPT ![j] = "done"]
              /\ UNCHANGED <<error, disk_faults>>
           \/ \E bad \in files :
                 \E before \in SUBSET ({Parent(p) : p \in files} \ {Parent(bad)}) :
                    \E some \in SUBSET ({p \in files : Parent(p) = Parent(bad)} \ {bad}) :
                       /\ fs' = WriteFs(fs, ZipPath(j),
                                   ZipMembers(fs, {p \in files : Parent(p) \in before}
                                                     \cup some, WorkDir(j)), j)
                       /\ DiskError(j, "ArchiveError")
                       /\ UNCHANGED meta
    /\ UNCHANGED <<doc, pages, results, total_chars, ocr_calls, failed_pages>>

JobStep(j) ==
    \/ Submit(j)
    \/ Upload(j)
    \/ MakeDirs(j)
    \/ Rasterize(j)
    \/ OcrPage(j)
    \/ SaveImage(j)
    \/ WriteRawText(j)
    \/ WriteStructure(j)
    \/ WriteWarnings(j)
    \/ WriteTable(j)
    \/ ZipOpen(j)
    \/ ZipPack(j)

Next == \E j \in Jobs : JobStep(j)

Spec == Init /\ [][Next]_vars

SpecConc == InitConc /\ [][Next]_vars

\* a job that can take a step takes one: each request runs in its own call
FairSpec == Init /\ [][Next]_vars /\ \A j \in Jobs : WF_vars(JobStep(j))

\* ---------------------------------------------------------------- properties
Started(j) == pc[j] \notin {"absent", "idle"}
AllPages(j) == 1..pages[j]

\* the k-th smallest element of a finite set of numbers
Nth(S, k) == CHOOSE x \in S : Cardinality({y \in S : y < x}) = k - 1

RECURSIVE SumLengths(_)
\* sum of the text_length fields of a sequence of entries
SumLengths(entries) ==
    IF entries = <<>> THEN 0
    ELSE entries[1].text_length + SumLengths(Tail(entries))

\* the messages a descriptor entry may embed after the page number
Messages == Errors \cup {"OCR error: " \o e : e \in Errors}

\* the member names of a complete bundle of n pages
BundleNames(n) ==
    {<<"docs", "raw_text.md">>, <<"docs", "structure.json">>,
     <<"docs", "ocr_warnings.txt">>, <<"tables", "table_001.json">>}
       \cup {<<"media", "images", "page_" \o Fmt03d(i) \o ".png">> : i \in 1..n}

\* the paths that belong to the namespace of job j
Owns(j, p) == p = PdfPath(j) \/ p = ZipPath(j) \/ p = WorkDir(j) \/ IsUnder(p, WorkDir(j))

\* C1: a Recognizer call that raises never ends the job: the step of the page
\* loop that calls the Recognizer never leads to failure, a finished job has
\* status 200 and a descriptor with one warning per failed page, and when all
\* n >= 1 pages failed the descriptor has page_count = n, total_chars = 0 and
\* n warnings.
C1_Finished ==
    \A j \in Jobs :
        pc[j] = "done" =>
            /\ response[j].status = 200
            /\ meta[j] # None
            /\ meta[j][1].page_count = doc[j].pages
            /\ Len(meta[j][1].warnings) = Cardinality(failed_pages[j])
            /\ (doc[j].pages >= 1 /\ failed_pages[j] = 1..doc[j].pages) =>
                   /\ meta[j][1].page_count > 0
                   /\ meta[j][1].total_chars = 0
                   /\ Len(meta[j][1].warnings) = doc[j].pages
                   /\ response[j].body[1].total_chars = 0
                   /\ Len(response[j].body[1].warnings) = doc[j].pages

C1_LoopStep ==
    \A j \in Jobs :
        (pc[j] = "ocr" /\ pc'[j] # "ocr") =>
            /\ pc'[j] # "failed"
            /\ error'[j] = "none"
            /\ Len(results'[j]) = Len(results[j]) + 1 \/ pc'[j] = "ocr_blocked"

C1_RecognitionFailureNeverAborts == [](C1_Finished) /\ [][C1_LoopStep]_vars

C1_Witness ==
    \E j \in Jobs :
        /\ pc[j] = "done"
        /\ pages[j] >= 2
        /\ failed_pages[j] = 1..pages[j]
        /\ response[j].status = 200

\* C2: when a job completes, docs/structure.json has one entry per source page
\* with page_number 1..n ascending, however many pages failed, and the
\* descriptor's page_count is n; the archive holds that same document.
C2_StructureOnePerPage ==
    \A j \in Jobs :
        pc[j] = "done" =>
            LET s == fs[StructPath(j)].data
            IN  /\ Len(s) = doc[j].pages
                /\ \A i \in 1..Len(s) : s[i].page_number = i
                /\ meta[j][1].page_count = doc[j].pages
                /\ Len(fs[ZipPath(j)].data[<<"docs", "structure.json">>].data)
                      = doc[j].pages

C2_Witness ==
    \E j \in Jobs :
        /\ pc[j] = "done"
        /\ pages[j] >= 2
        /\ failed_pages[j] # {}
        /\ failed_pages[j] # 1..pages[j]
        /\ Len(fs[StructPath(j)].data) = pages[j]

\* C3: at every point, a page result carries a warning exactly when the
\* Recognizer call of that page raised, and a result with a warning has text ""
\* and text_length 0; in docs/structure.json has_warning is set exactly for the
\* failed pages and implies text_length = 0.
C3_WarningIffFailed ==
    \A j \in Jobs :
        /\ \A i \in 1..Len(results[j]) :
              /\ results[j][i].page_number = i
              /\ (results[j][i].warning # None) <=> (i \in failed_pages[j])
              /\ results[j][i].warning # None =>
                    /\ results[j][i].text = ""
                    /\ results[j][i].text_length = 0
        /\ (Started(j) /\ StructPath(j) \in DOMAIN fs) =>
              LET s == fs[StructPath(j)].data
              IN  \A i \in 1..Len(s) :
                     /\ s[i].has_warning <=> (s[i].page_number \in failed_pages[j])
                     /\ s[i].has_warning => s[i].text_length = 0

C3_Witness ==
    \E j \in Jobs :
        /\ pc[j] = "done"
        /\ failed_pages[j] # {}
        /\ \E i \in AllPages(j) \ failed_pages[j] : results[j][i].text = ""
        /\ \E i \in AllPages(j) \ failed_pages[j] : results[j][i].text_length > 0
        /\ \E i \in 1..Len(fs[StructPath(j)].data) : fs[StructPath(j)].data[i].has_warning

\* C4 (as claimed): the descriptor's warnings list has one entry per failed
\* page, in ascending page order, each of the form "<page_number>: <message>".
C4_EntriesNameTheirPage ==
    \A j \in Jobs :
        pc[j] = "done" =>
            LET w == meta[j][1].warnings
                W == failed_pages[j]
            IN  /\ Len(w) = Cardinality(W)
                /\ \A k \in 1..Len(w) :
                      \E m \in Messages : w[k] = ToStr(Nth(W, k)) \o ": " \o m

\* C4 (amended): the descriptor's warnings list has one entry per failed page,
\* in ascending page order; each entry is that page's message
\* "OCR error: <cause>" without a page number, and the page is named only in
\* the matching line of docs/ocr_warnings.txt, "Trang <page_number>: <entry>".
C4_EntriesAreMessagesInPageOrder ==
    \A j \in Jobs :
        pc[j] = "done" =>
            LET w == meta[j][1].warnings
                W == failed_pages[j]
                lines == fs[WarnPath(j)].data
            IN  /\ Len(w) = Cardinality(W)
                /\ Len(lines) = Cardinality(W)
                /\ response[j].body[1].warnings = w
                /\ \A k \in 1..Len(w) :
                      /\ w[k] = results[j][Nth(W, k)].warning[1]
                      /\ \E e \in Errors : w[k] = "OCR error: " \o e
                      /\ lines[k] = "Trang " \o ToStr(Nth(W, k)) \o ": " \o w[k] \o "\n"

C4_Witness ==
    \E j \in Jobs :
        /\ pc[j] = "done"
        /\ pages[j] = 3
        /\ failed_pages[j] = {2}
        /\ meta[j][1].page_count = 3
        /\ meta[j][1].warnings = <<"OCR error: timeout">>

\* C5: when a job completes, the descriptor's total_chars is the sum of
\* text_length over the page results, which is the sum of the text_length
\* values written to docs/structure.json.
C5_TotalCharsIsSum ==
    \A j \in Jobs :
        pc[j] = "done" =>
            /\ meta[j][1].total_chars = SumLengths(results[j])
            /\ meta[j][1].total_chars = SumLengths(fs[StructPath(j)].data)
            /\ response[j].body[1].total_chars = meta[j][1].total_chars

C5_Witness ==
    \E j \in Jobs :
        /\ pc[j] = "done"
        /\ pages[j] >= 3
        /\ failed_pages[j] # {}
        /\ results[j][1].text_length > 0
        /\ meta[j][1].total_chars >= 4

\* C6: when rasterization fails, the job has failed with no Recognizer call,
\* no archive and no working directory of the job on disk.
C6_RasterFailureLeavesNothing ==
    \A j \in Jobs :
        error[j] = "DocumentFormatError" =>
            /\ pc[j] = "failed"
            /\ ocr_calls[j] = 0
            /\ meta[j] = None
            /\ ZipPath(j) \notin DOMAIN fs
            /\ WorkDir(j) \notin DOMAIN fs

\* C7: after a job failed on a file write during assembly or on packaging, the
\* download route serves no archive of that job.
C7_NoArchiveAfterFatalFailure ==
    \A j \in Jobs :
        (pc[j] = "failed" /\ error[j] \in {"IOError", "ArchiveError"}) =>
            download_file(ZipName(j)) = 404

\* C8: when a job of n pages completes, the archive's member names are the
\* relative paths of the files in the working directory: the three docs files,
\* the table placeholder and page_001.png .. page_<n>.png, 4 + n names in all,
\* whichever pages failed.
C8_ArchiveNamesAreBundlePaths ==
    \A j \in Jobs :
        pc[j] = "done" =>
            LET names == DOMAIN fs[ZipPath(j)].data
            IN  /\ names = {RelPath(p, WorkDir(j)) : p \in WalkFiles(fs, WorkDir(j))}
                /\ names = BundleNames(doc[j].pages)
                /\ Cardinality(names) = 4 + doc[j].pages

C8_Witness ==
    \E j \in Jobs :
        /\ pc[j] = "done"
        /\ pages[j] >= 2
        /\ failed_pages[j] # {}
        /\ <<"media", "images", "page_002.png">> \in DOMAIN fs[ZipPath(j)].data

\* C9: with two jobs interleaved, no path belongs to both jobs, every path of
\* a job's namespace was written by that job alone, an archive holds only
\* files its own job wrote, and a finished job's archive and descriptor are
\* those determined by its own document and page results.
C9_JobsAreIsolated ==
    /\ \A p \in DOMAIN fs : fs[p].by \in Jobs => ~ (Owns("j1", p) /\ Owns("j2", p))
    /\ \A j \in Jobs :
          /\ \A p \in DOMAIN fs : (Owns(j, p) /\ fs[p].by \in Jobs) => fs[p].by = j
          /\ ZipPath(j) \in DOMAIN fs =>
                \A nm \in DOMAIN fs[ZipPath(j)].data : fs[ZipPath(j)].data[nm].by = j
          /\ pc[j] = "done" =>
                LET z == fs[ZipPath(j)].data
                IN  /\ DOMAIN z = BundleNames(doc[j].pages)
                    /\ z[<<"docs", "raw_text.md">>].data = RawText(results[j])
                    /\ z[<<"docs", "structure.json">>].data = StructureJson(results[j])
                    /\ z[<<"docs", "ocr_warnings.txt">>].data = WarningLines(results[j])
                    /\ meta[j][1].page_count = doc[j].pages
                    /\ meta[j][1].zip_path = ZipPath(j)

C9_Witness ==
    /\ \A j \in Jobs : pc[j] = "done" /\ pages[j] >= 1
    /\ failed_pages["j1"] # {}
    /\ failed_pages["j2"] = {}

\* C10: a Recognizer call that never answers is cut off, so every started job
\* eventually completes or fails.
C10_EveryJobEnds ==
    \A j \in Jobs : Started(j) ~> (pc[j] \in Terminal)

====
